---- MODULE Spec2Model ----
(***************************************************************************)
(* Model of the nfs-client provisioner with per-volume project quotas:     *)
(* nfsProvisioner.Provision / Delete and their helpers (createQuota,       *)
(* deleteQuota, getBlockAndID), over a filesystem (set of directories),    *)
(* a quota project registry and a quota backend.                           *)
(*                                                                         *)
(* Strings are sequences of tokens; a path is the sequence of its          *)
(* components separated by "/" tokens.                                     *)
(***************************************************************************)
EXTENDS Integers, Sequences, FiniteSets, TLC

VARIABLES
    dirs,          \* directories that exist on the provisioner's filesystem
    projects,      \* the persisted registry table: set of [path, projectID, block]
    limits,        \* limits enforced at the backend: set of [projectID, path, limit]
    pvs,           \* volume descriptors returned by successful Provision calls
    pPath,         \* nfsProvisioner.path (NFS_PATH)
    last,          \* the last completed call: its result and the quotaer calls it made
    inflight       \* per caller, the Provision call it has in progress and the step it is at

vars == <<dirs, projects, limits, pvs, pPath, last, inflight>>

----------------------------------------------------------------------------
(* Bounds *)

MaxVolumes == 1      \* number of distinct generated PV names
MaxPVs == 1          \* number of volume descriptors kept for later Delete calls
MaxCallers == 2      \* number of Provision calls the controller runs at the same time

----------------------------------------------------------------------------
(* Program constants *)

annProjectBlock == "Project_block"
annProjectID == "Project_Id"
mountPath == <<"/", "nfs">>
labelUid == "uid"
labelGid == "gid"
labelDirectoryName == "nfs-directory-name"

MaxProjectID == 65535

----------------------------------------------------------------------------
(* Strings, numbers and paths *)

Digits == <<"0", "1", "2", "3", "4", "5", "6", "7", "8", "9">>

DigitChars == {Digits[i] : i \in 1..10}

DigitVal(c) == (CHOOSE i \in 1..10 : Digits[i] = c) - 1

RECURSIVE FormatUint(_)
\* strconv.FormatUint(n, 10) / strconv.FormatInt(n, 10) for n >= 0
FormatUint(n) ==
    IF n < 10 THEN <<Digits[n + 1]>>
    ELSE FormatUint(n \div 10) \o <<Digits[(n % 10) + 1]>>

RECURSIVE DecimalValue(_)
DecimalValue(s) ==
    IF s = <<>> THEN 0
    ELSE 10 * DecimalValue(SubSeq(s, 1, Len(s) - 1)) + DigitVal(s[Len(s)])

IsDecimal(s) == s # <<>> /\ \A i \in 1..Len(s) : s[i] \in DigitChars

\* strconv.Atoi: only whether the label parses matters to the caller
AtoiFails(s) ==
    LET body == IF s # <<>> /\ s[1] \in {"+", "-"} THEN Tail(s) ELSE s
    IN  ~IsDecimal(body)

\* strconv.ParseUint(s, 10, 16): (0, ErrSyntax), (65535, ErrRange) or (v, nil)
ParseUint16(s) ==
    IF ~IsDecimal(s) THEN [val |-> 0, err |-> "ErrSyntax"]
    ELSE IF DecimalValue(s) > 65535 THEN [val |-> 65535, err |-> "ErrRange"]
    ELSE [val |-> DecimalValue(s), err |-> "nil"]

\* a parse whose error the caller drops: the zero value false, no error
ParseBool_ErrorDropped(s) ==
    IF s \in {<<"1">>, <<"t">>, <<"T">>, <<"TRUE">>, <<"true">>, <<"True">>}
        THEN [val |-> TRUE, err |-> "nil"]
    ELSE [val |-> FALSE, err |-> "nil"]

\* strconv.ParseBool
ParseBool(s) ==
    IF s \in {<<"1">>, <<"t">>, <<"T">>, <<"TRUE">>, <<"true">>, <<"True">>}
        THEN [val |-> TRUE, err |-> "nil"]
    ELSE IF s \in {<<"0">>, <<"f">>, <<"F">>, <<"FALSE">>, <<"false">>, <<"False">>}
        THEN [val |-> FALSE, err |-> "nil"]
    ELSE [val |-> FALSE, err |-> "ErrSyntax"]

\* a Go map lookup: the zero value "" when the key is absent
Lookup(m, k) == IF k \in DOMAIN m THEN m[k] ELSE <<>>

RECURSIVE StringsJoin(_, _)
\* strings.Join(elems, sep)
StringsJoin(elems, sep) ==
    IF elems = <<>> THEN <<>>
    ELSE IF Len(elems) = 1 THEN elems[1]
    ELSE elems[1] \o sep \o StringsJoin(Tail(elems), sep)

\* filepath.Join(base, name) / path.Join(base, name)
PathJoin(base, name) == base \o <<"/">> \o name

\* filepath.Base(path): what follows the last separator
PathBase(p) ==
    LET seps == {i \in 1..Len(p) : p[i] = "/"}
        lastSep == IF seps = {} THEN 0 ELSE CHOOSE i \in seps : \A j \in seps : j <= i
    IN  SubSeq(p, lastSep + 1, Len(p))

IsPrefix(p, q) == Len(p) <= Len(q) /\ SubSeq(q, 1, Len(p)) = p

\* os.RemoveAll(p): p and everything below it
RemoveAll(p, d) == {q \in d : ~(q = p \/ IsPrefix(p \o <<"/">>, q))}

----------------------------------------------------------------------------
(* Quota Project Registry and Quota Backend Adapter (the quotaer), as the   *)
(* provisioner runs with -enable-xfs-quota: the enforcing adapter, whose   *)
(* calls can fail.                                                         *)

ActiveIDs(P) == {e.projectID : e \in P}

\* an allocation that does not look at the IDs in use
NextFreeID_First(P) == 1

\* the smallest project ID not in use, searching from 1
NextFreeID(P) ==
    CHOOSE i \in 1..(Cardinality(P) + 1) : i \notin ActiveIDs(P) /\ \A j \in 1..(i - 1) : j \in ActiveIDs(P)

\* the locator of the entry appended for (id, path)
BlockOf(id, path) == <<id, path>>

\* Registry.Allocate, reached through quotaer.AddProject(path, limit)
AddProject(path, limit, P) ==
    IF \E e \in P : e.path = path
        THEN [block |-> <<>>, projectID |-> 0, err |-> "DuplicateVolume", projects |-> P]
    ELSE IF Cardinality(P) >= MaxProjectID
        THEN [block |-> <<>>, projectID |-> 0, err |-> "CapacityExhausted", projects |-> P]
    ELSE LET id == NextFreeID(P)
         IN  [block |-> BlockOf(id, path), projectID |-> id, err |-> "nil",
              projects |-> P \cup {[path |-> path, projectID |-> id, block |-> BlockOf(id, path)]}]

\* Registry.Release, reached through quotaer.RemoveProject(block, projectID)
RemoveProject(block, projectID, P) ==
    IF \E e \in P : e.block = block /\ e.projectID = projectID
        THEN [err |-> "nil", projects |-> {e \in P : ~(e.block = block /\ e.projectID = projectID)}]
    ELSE [err |-> "NotFound", projects |-> P]

\* Backend.Apply, reached through quotaer.SetQuota(projectID, path, limit);
\* backendOk is whether the privileged quota mechanism succeeds this time
SetQuota(projectID, path, limit, L, backendOk) ==
    IF ~backendOk THEN [err |-> "BackendFailure", limits |-> L]
    ELSE [err |-> "nil",
          limits |-> {l \in L : l.projectID # projectID}
                       \cup {[projectID |-> projectID, path |-> path, limit |-> limit]}]

\* Backend.Clear, reached through quotaer.UnsetQuota(projectID)
UnsetQuota(projectID, L, backendOk) ==
    IF ~backendOk THEN [err |-> "BackendFailure", limits |-> L]
    ELSE [err |-> "nil", limits |-> {l \in L : l.projectID # projectID}]

----------------------------------------------------------------------------
(* nfsProvisioner helpers *)

\* getAccessModes
getAccessModes == {"ReadWriteOnce", "ReadOnlyMany", "ReadWriteMany"}

AccessModesContains(modes, mode) == mode \in modes

\* a check that a request passes when one of its modes is supported
AccessModesContainedInAll_Any(indexedModes, requestedModes) ==
    \E mode \in requestedModes : AccessModesContains(indexedModes, mode)

AccessModesContainedInAll(indexedModes, requestedModes) ==
    \A mode \in requestedModes : AccessModesContains(indexedModes, mode)

\* the directory Provision creates for a directory name
fullPathOf(pvName) == PathJoin(mountPath, pvName)

\* the directory Delete looks for
oldPathOf(volume) == fullPathOf(PathBase(volume.Path))

\* where Delete moves the directory when it archives
archivePathOf(volume) == PathJoin(mountPath, <<"archived-">> \o PathBase(volume.Path))

\* the directory name Provision derives from the claim
pvNameOf(options) ==
    LET joined == StringsJoin(<<options.Namespace, options.Name, options.PVName>>, <<"-">>)
        directoryName == Lookup(options.Labels, labelDirectoryName)
    IN  IF directoryName # <<>> THEN directoryName ELSE joined

\* createQuota without the compensating RemoveProject
createQuota_NoRollback(directory, capacity, P, L, backendOk) ==
    LET path == PathJoin(pPath, directory)
        limit == FormatUint(capacity)
        add == AddProject(path, limit, P)
        set == SetQuota(add.projectID, path, limit, L, backendOk)
    IN  IF add.err # "nil"
            THEN [block |-> <<>>, projectID |-> 0, err |-> add.err, step |-> "AddProject",
                  projects |-> add.projects, limits |-> L, calls |-> <<"AddProject">>]
        ELSE IF set.err # "nil"
            THEN [block |-> <<>>, projectID |-> 0, err |-> set.err, step |-> "SetQuota",
                  projects |-> add.projects, limits |-> set.limits,
                  calls |-> <<"AddProject", "SetQuota">>]
        ELSE [block |-> add.block, projectID |-> add.projectID, err |-> "nil", step |-> "nil",
              projects |-> add.projects, limits |-> set.limits,
              calls |-> <<"AddProject", "SetQuota">>]

\* createQuota(directory, capacity) on registry P and limits L
createQuota(directory, capacity, P, L, backendOk) ==
    LET path == PathJoin(pPath, directory)
        limit == FormatUint(capacity)
        add == AddProject(path, limit, P)
        set == SetQuota(add.projectID, path, limit, L, backendOk)
        rm == RemoveProject(add.block, add.projectID, add.projects)
    IN  IF add.err # "nil"
            THEN [block |-> <<>>, projectID |-> 0, err |-> add.err, step |-> "AddProject",
                  projects |-> add.projects, limits |-> L, calls |-> <<"AddProject">>]
        ELSE IF set.err # "nil"
            THEN [block |-> <<>>, projectID |-> 0, err |-> set.err, step |-> "SetQuota",
                  projects |-> rm.projects, limits |-> set.limits,
                  calls |-> <<"AddProject", "SetQuota", "RemoveProject">>]
        ELSE [block |-> add.block, projectID |-> add.projectID, err |-> "nil", step |-> "nil",
              projects |-> add.projects, limits |-> set.limits,
              calls |-> <<"AddProject", "SetQuota">>]

\* getBlockAndID that parses the project ID into 8 bits
getBlockAndID_Uint8(volume) ==
    IF annProjectBlock \notin DOMAIN volume.Annotations
        THEN [block |-> <<>>, id |-> 0, err |-> "MissingAnnotation"]
    ELSE IF annProjectID \notin DOMAIN volume.Annotations
        THEN [block |-> <<>>, id |-> 0, err |-> "MissingAnnotation"]
    ELSE [block |-> volume.Annotations[annProjectBlock],
          id |-> IF ParseUint16(volume.Annotations[annProjectID]).val > 255 THEN 255
                 ELSE ParseUint16(volume.Annotations[annProjectID]).val,
          err |-> "nil"]

\* getBlockAndID(volume, annProjectBlock, annProjectID)
getBlockAndID(volume) ==
    IF annProjectBlock \notin DOMAIN volume.Annotations
        THEN [block |-> <<>>, id |-> 0, err |-> "MissingAnnotation"]
    ELSE IF annProjectID \notin DOMAIN volume.Annotations
        THEN [block |-> <<>>, id |-> 0, err |-> "MissingAnnotation"]
    ELSE [block |-> volume.Annotations[annProjectBlock],
          id |-> ParseUint16(volume.Annotations[annProjectID]).val % 65536,
          err |-> "nil"]

\* deleteQuota that clears the limit and forgets the registry entry
deleteQuota_KeepsEntry(volume, P, L, backendOk) ==
    LET got == getBlockAndID(volume)
        unset == UnsetQuota(got.id, L, backendOk)
    IN  IF got.err # "nil"
            THEN [err |-> got.err, step |-> "getBlockAndID", projects |-> P, limits |-> L, calls |-> <<>>]
        ELSE IF unset.err # "nil"
            THEN [err |-> unset.err, step |-> "UnsetQuota", projects |-> P, limits |-> unset.limits,
                  calls |-> <<"UnsetQuota">>]
        ELSE [err |-> "nil", step |-> "nil", projects |-> P, limits |-> unset.limits,
              calls |-> <<"UnsetQuota", "RemoveProject">>]

\* deleteQuota that releases the registry entry before it clears the limit
deleteQuota_ReleaseFirst(volume, P, L, backendOk) ==
    LET got == getBlockAndID(volume)
        rm == RemoveProject(got.block, got.id, P)
        unset == UnsetQuota(got.id, L, backendOk)
    IN  IF got.err # "nil"
            THEN [err |-> got.err, step |-> "getBlockAndID", projects |-> P, limits |-> L, calls |-> <<>>]
        ELSE IF rm.err # "nil"
            THEN [err |-> rm.err, step |-> "RemoveProject", projects |-> rm.projects, limits |-> L,
                  calls |-> <<"RemoveProject">>]
        ELSE IF unset.err # "nil"
            THEN [err |-> unset.err, step |-> "UnsetQuota", projects |-> rm.projects,
                  limits |-> unset.limits, calls |-> <<"RemoveProject", "UnsetQuota">>]
        ELSE [err |-> "nil", step |-> "nil", projects |-> rm.projects, limits |-> unset.limits,
              calls |-> <<"RemoveProject", "UnsetQuota">>]

\* deleteQuota(volume) on registry P and limits L
deleteQuota(volume, P, L, backendOk) ==
    LET got == getBlockAndID(volume)
        unset == UnsetQuota(got.id, L, backendOk)
        rm == RemoveProject(got.block, got.id, P)
    IN  IF got.err # "nil"
            THEN [err |-> got.err, step |-> "getBlockAndID", projects |-> P, limits |-> L, calls |-> <<>>]
        ELSE IF unset.err # "nil"
            THEN [err |-> unset.err, step |-> "UnsetQuota", projects |-> P, limits |-> unset.limits,
                  calls |-> <<"UnsetQuota">>]
        ELSE IF rm.err # "nil"
            THEN [err |-> rm.err, step |-> "RemoveProject", projects |-> rm.projects,
                  limits |-> unset.limits, calls |-> <<"UnsetQuota", "RemoveProject">>]
        ELSE [err |-> "nil", step |-> "nil", projects |-> rm.projects, limits |-> unset.limits,
              calls |-> <<"UnsetQuota", "RemoveProject">>]

----------------------------------------------------------------------------
(* Inputs *)

PVNames == {<<"pv">> \o FormatUint(i) : i \in 1..MaxVolumes}

\* PVC label maps: an optional directory-name override, optional uid and gid
DirLabels == {<<>>, <<"ns", "-", "claim", "-", "pv", "1">>}
OwnerLabels == {<<<<>>, <<>>>>, <<<<"x">>, <<>>>>, <<<<"1", "0">>, <<"y">>>>}

LabelMap(d, u, g) ==
    LET keys == (IF d # <<>> THEN {labelDirectoryName} ELSE {})
                \cup (IF u # <<>> THEN {labelUid} ELSE {})
                \cup (IF g # <<>> THEN {labelGid} ELSE {})
    IN  [k \in keys |-> IF k = labelDirectoryName THEN d ELSE IF k = labelUid THEN u ELSE g]

LabelMaps == {LabelMap(d, o[1], o[2]) : d \in DirLabels, o \in OwnerLabels}

\* requested access modes and whether a selector is set
AccessRequests ==
    {<<{"ReadWriteOnce"}, FALSE>>, <<{"ReadWriteMany", "ReadWriteOncePod"}, FALSE>>,
     <<{"ReadOnlyMany"}, TRUE>>}

\* requested storage, in bytes (1 GiB)
Capacities == {1073741824}

\* controller.VolumeOptions, as far as Provision reads it
VolumeOptions ==
    {[PVName |-> n, Namespace |-> <<"ns">>, Name |-> <<"claim">>, Labels |-> l,
      AccessModes |-> a[1], Selector |-> a[2], Capacity |-> c] :
        n \in PVNames, l \in LabelMaps, a \in AccessRequests, c \in Capacities}

\* the step of Provision at which the environment fails, if any
ProvisionFailures == {"none", "MkdirAll", "Chown", "SetQuota"}

\* The calls the environment makes.  A request that validation rejects comes
\* without labels, and a rejected request or owner label without a failure:
\* the other combinations take the same steps as one of these.
ProvisionInputs ==
    {<<options, fail>> \in VolumeOptions \X ProvisionFailures :
        LET rejected == options.Selector
                        \/ ~(options.AccessModes \subseteq {"ReadWriteOnce", "ReadOnlyMany", "ReadWriteMany"})
            badOwner == Lookup(options.Labels, "uid") = <<"x">> \/ Lookup(options.Labels, "gid") = <<"y">>
        IN  /\ rejected => DOMAIN options.Labels = {}
            /\ (rejected \/ badOwner) => fail = "none"}

\* StorageClass.Parameters: archiveOnDelete absent or one of these strings
ArchiveValues == {<<"true">>, <<"false">>, <<"maybe">>}

ClassParameters ==
    {[k \in {} |-> <<>>]} \cup {[k \in {"archiveOnDelete"} |-> v] : v \in ArchiveValues}

\* the step of Delete at which the environment fails, if any
DeleteFailures == {"none", "getClassForVolume", "UnsetQuota", "Rename", "RemoveAll"}

\* a failure is paired with the policies under which Delete reaches its step
DeleteInputs ==
    {<<params, fail>> \in ClassParameters \X DeleteFailures :
        LET policy == Lookup(params, "archiveOnDelete")
        IN  /\ fail = "RemoveAll" => policy = <<"false">>
            /\ fail \in {"UnsetQuota", "Rename"} => policy \in {<<>>, <<"true">>}
            /\ fail = "getClassForVolume" => policy # <<"maybe">>}

\* a descriptor as the API hands it to Delete: the one Provision returned,
\* or one that lost some of its annotations
Strip(pv, keys) ==
    [pv EXCEPT !.Annotations = [k \in (DOMAIN pv.Annotations) \ keys |-> pv.Annotations[k]]]

\* values of the Project_Id annotation that are no project ID: empty, not a
\* number, and a number above 65535
CorruptIDs == {<<>>, <<"x">>, <<"6", "5", "5", "3", "6">>}

\* a descriptor whose Project_Id annotation was overwritten
Corrupt(pv, idStr) == [pv EXCEPT !.Annotations[annProjectID] = idStr]

DeleteVolumes ==
    {Strip(pv, keys) : pv \in pvs, keys \in {{}, {annProjectBlock}, {annProjectID}}}
        \cup {Corrupt(pv, idStr) : pv \in pvs, idStr \in CorruptIDs}

\* the calls of Delete: a descriptor that is not as Provision returned it comes
\* without a failure
DeleteCalls ==
    {<<volume, in[1], in[2]>> : volume \in DeleteVolumes, in \in DeleteInputs}
        \ {c \in DeleteVolumes \X ClassParameters \X DeleteFailures :
               c[1] \notin pvs /\ c[3] # "none"}

----------------------------------------------------------------------------
(* Provision *)

\* the annotations Provision puts on the descriptor it returns
PVAnnotations(projectBlock, projectID) ==
    [k \in {annProjectBlock, annProjectID} |->
        IF k = annProjectBlock THEN projectBlock ELSE FormatUint(projectID)]

\* the result of Provision(options) in the current state
ProvisionResult(options, fail) ==
    LET pvName == pvNameOf(options)
        fullPath == fullPathOf(pvName)
        made == dirs \cup {fullPath}
        uidFromLabel == Lookup(options.Labels, labelUid)
        gidFromLabel == Lookup(options.Labels, labelGid)
        path == PathJoin(pPath, pvName)
        q == createQuota(pvName, options.Capacity, projects, limits, fail # "SetQuota")
        pv == [Path |-> path, Annotations |-> PVAnnotations(q.block, q.projectID)]
        out(result, cause, d, P, L, calls, ret) ==
            [result |-> result, cause |-> cause, dirs |-> d, projects |-> P, limits |-> L,
             calls |-> calls, pv |-> ret]
    IN  IF ~AccessModesContainedInAll(getAccessModes, options.AccessModes)
            THEN out("InvalidAccessModes", "nil", dirs, projects, limits, <<>>, {})
        ELSE IF options.Selector
            THEN out("SelectorNotSupported", "nil", dirs, projects, limits, <<>>, {})
        ELSE IF fullPath \in dirs
            \* os.Stat returned a nil error, and err.Error() is called on it
            THEN out("panic", "nil", dirs, projects, limits, <<>>, {})
        ELSE IF fail = "MkdirAll"
            THEN out("MkdirAllFailed", "nil", dirs, projects, limits, <<>>, {})
        ELSE IF uidFromLabel # <<>> /\ AtoiFails(uidFromLabel)
            THEN out("ParseUidFailed", "nil", made, projects, limits, <<>>, {})
        ELSE IF gidFromLabel # <<>> /\ AtoiFails(gidFromLabel)
            THEN out("ParseGidFailed", "nil", made, projects, limits, <<>>, {})
        ELSE IF fail = "Chown"
            THEN out("ChownFailed", "nil", made, projects, limits, <<>>, {})
        ELSE IF q.err # "nil"
            THEN out("CreateQuotaFailed", q.err, RemoveAll(path, made), q.projects, q.limits,
                     q.calls, {})
        ELSE out("nil", "nil", made, q.projects, q.limits, q.calls, {pv})

Provision(options, fail) ==
    LET r == ProvisionResult(options, fail)
    IN  /\ Cardinality(pvs \cup r.pv) <= MaxPVs
        /\ dirs' = r.dirs
        /\ projects' = r.projects
        /\ limits' = r.limits
        /\ pvs' = pvs \cup r.pv
        /\ last' = [op |-> "Provision", pvName |-> pvNameOf(options),
                    result |-> r.result, cause |-> r.cause, calls |-> r.calls, pv |-> r.pv]
        /\ UNCHANGED <<pPath, inflight>>

----------------------------------------------------------------------------
(* Delete *)

\* a Delete that never takes the directory for absent
IsNotExist_Never(oldPath, d) == FALSE

\* the first check of Delete: os.Stat(oldPath) reports that nothing is there
IsNotExist(oldPath, d) == oldPath \notin d

\* os.Rename(oldPath, newPath) refuses an existing directory as the target
RenameFails(newPath, d, fail) == newPath \in d \/ fail = "Rename"

\* the result of Delete(volume) in the current state
DeleteResult(volume, params, fail) ==
    LET oldPath == oldPathOf(volume)
        exists == "archiveOnDelete" \in DOMAIN params
        archiveBool == ParseBool(params["archiveOnDelete"])
        q == deleteQuota(volume, projects, limits, fail # "UnsetQuota")
        archivePath == archivePathOf(volume)
        out(result, cause, d, P, L, calls) ==
            [result |-> result, cause |-> cause, dirs |-> d, projects |-> P, limits |-> L,
             calls |-> calls]
    IN  IF IsNotExist(oldPath, dirs)
            THEN out("nil", "nil", dirs, projects, limits, <<>>)
        ELSE IF fail = "getClassForVolume"
            THEN out("GetClassFailed", "nil", dirs, projects, limits, <<"getClassForVolume">>)
        ELSE IF exists /\ archiveBool.err # "nil"
            THEN out("ParseBoolFailed", "nil", dirs, projects, limits, <<"getClassForVolume">>)
        ELSE IF exists /\ ~archiveBool.val
            THEN IF fail = "RemoveAll"
                     THEN out("RemoveAllFailed", "nil", dirs, projects, limits,
                              <<"getClassForVolume">>)
                 ELSE out("nil", "nil", RemoveAll(oldPath, dirs), projects, limits,
                          <<"getClassForVolume">>)
        ELSE IF q.err # "nil"
            THEN out("DeleteQuotaFailed", q.err, dirs, q.projects, q.limits,
                     <<"getClassForVolume">> \o q.calls)
        ELSE IF RenameFails(archivePath, dirs, fail)
            THEN out("RenameFailed", "nil", dirs, q.projects, q.limits,
                     <<"getClassForVolume">> \o q.calls)
        ELSE out("nil", "nil", (dirs \ {oldPath}) \cup {archivePath}, q.projects, q.limits,
                 <<"getClassForVolume">> \o q.calls)

Delete(volume, params, fail) ==
    LET r == DeleteResult(volume, params, fail)
    IN  /\ dirs' = r.dirs
        /\ projects' = r.projects
        /\ limits' = r.limits
        /\ last' = [op |-> "Delete", pvName |-> PathBase(volume.Path),
                    result |-> r.result, cause |-> r.cause, calls |-> r.calls, pv |-> {}]
        /\ UNCHANGED <<pvs, pPath, inflight>>

----------------------------------------------------------------------------
(* Specification *)

\* the callers of Provision, and a caller with no call in progress
Callers == 1..MaxCallers

Idle ==
    [pc |-> "idle", pvName |-> <<>>, capacity |-> 0, block |-> <<>>, projectID |-> 0,
     err |-> "nil", result |-> "none", pv |-> {}]

\* NFS_PATH as configured: the mount point itself, or the server's export path
ExportPaths == {mountPath, <<"/", "export">>}

Init ==
    /\ dirs = {}
    /\ projects = {}
    /\ limits = {}
    /\ pvs = {}
    /\ pPath \in ExportPaths
    /\ last = [op |-> "none", pvName |-> <<>>, result |-> "nil", cause |-> "nil",
               calls |-> <<>>, pv |-> {}]
    /\ inflight = [c \in Callers |-> Idle]

Next ==
    \/ \E in \in ProvisionInputs : Provision(in[1], in[2])
    \/ \E c \in DeleteCalls : Delete(c[1], c[2], c[3])

Spec == Init /\ [][Next]_vars

----------------------------------------------------------------------------
(* Vocabulary of the properties *)

\* the path the registry and the backend know the volume by
quotaPathOf(pvName) == PathJoin(pPath, pvName)

Called(name) == \E i \in 1..Len(last.calls) : last.calls[i] = name

Accepted(options) ==
    /\ options.AccessModes \subseteq {"ReadWriteOnce", "ReadOnlyMany", "ReadWriteMany"}
    /\ ~options.Selector

Annotated(volume) == DOMAIN volume.Annotations = {annProjectBlock, annProjectID}

\* the registry entries a descriptor's annotations identify
EntriesOf(volume, P) ==
    {e \in P : /\ e.block = volume.Annotations[annProjectBlock]
               /\ FormatUint(e.projectID) = volume.Annotations[annProjectID]}

LimitsOf(volume, L) ==
    {l \in L : FormatUint(l.projectID) = volume.Annotations[annProjectID]}

ArchivePolicies == {<<>>, <<"true">>}

\* class parameters under which Delete archives
ArchiveParameters == {p \in ClassParameters : Lookup(p, "archiveOnDelete") \in ArchivePolicies}

----------------------------------------------------------------------------
(* Provision: failures *)

\* C1: a Provision of an accepted request whose directory already exists
\* returns an AlreadyExists error and changes neither the directories, nor
\* the registry, nor the enforced limits.
C1_ExistingDirectoryIsAlreadyExists ==
    [][\A in \in ProvisionInputs :
          (/\ Provision(in[1], in[2])
           /\ Accepted(in[1])
           /\ fullPathOf(pvNameOf(in[1])) \in dirs)
          => (/\ last'.result = "AlreadyExists"
              /\ dirs' = dirs /\ projects' = projects /\ limits' = limits)]_vars

\* C2: when createQuota fails in Provision, the directory the call created is
\* gone when Provision returns.
C2_QuotaFailureRemovesDirectory ==
    (last.op = "Provision" /\ last.result = "CreateQuotaFailed")
        => fullPathOf(last.pvName) \notin dirs

\* C3: when Provision fails on the uid or gid label or on the ownership
\* change, the directory it created is gone and the volume has no registry
\* entry.
C3_OwnerFailureRemovesDirectory ==
    (last.op = "Provision" /\ last.result \in {"ParseUidFailed", "ParseGidFailed", "ChownFailed"})
        => (/\ fullPathOf(last.pvName) \notin dirs
            /\ ~\E e \in projects : e.path = quotaPathOf(last.pvName))

\* C4: when the backend Apply (SetQuota) fails in createQuota, the registry
\* has no entry for the volume's path once createQuota has returned, and the
\* error that comes back is the Apply error.
C4_ApplyFailureReleasesEntry ==
    (last.op = "Provision" /\ Called("SetQuota") /\ last.result # "nil")
        => (/\ ~\E e \in projects : e.path = quotaPathOf(last.pvName)
            /\ last.result = "CreateQuotaFailed"
            /\ last.cause = "BackendFailure")

C4_Witness ==
    /\ last.op = "Provision"
    /\ last.calls = <<"AddProject", "SetQuota", "RemoveProject">>
    /\ last.cause = "BackendFailure"
    /\ fullPathOf(last.pvName) \notin dirs

----------------------------------------------------------------------------
(* Delete *)

\* C5: a successful Delete of an annotated volume whose directory exists,
\* under archiveOnDelete=false, leaves neither the directory, nor the registry
\* entry of its annotations, nor a limit under its project ID.
C5_DeleteReleasesQuotaAndRemoves ==
    [][\A c \in DeleteCalls :
          (/\ Delete(c[1], c[2], c[3])
           /\ oldPathOf(c[1]) \in dirs
           /\ Annotated(c[1])
           /\ Lookup(c[2], "archiveOnDelete") = <<"false">>
           /\ last'.result = "nil")
          => (/\ oldPathOf(c[1]) \notin dirs'
              /\ EntriesOf(c[1], projects') = {}
              /\ LimitsOf(c[1], limits') = {})]_vars

\* C6: a Delete of a volume whose directory is absent returns success, calls
\* neither the storage class lookup nor the quotaer and changes nothing; and
\* every successful Delete leaves the directory absent, so that a second
\* Delete meets this case.
C6_DeleteOfAbsentDirectoryIsNoop ==
    [][last'.op = "Delete"
          => (/\ fullPathOf(last'.pvName) \notin dirs
                  => (/\ last'.result = "nil"
                      /\ last'.calls = <<>>
                      /\ dirs' = dirs /\ projects' = projects /\ limits' = limits)
              /\ last'.result = "nil" => fullPathOf(last'.pvName) \notin dirs')]_vars

C6_Witness ==
    /\ last.op = "Delete"
    /\ last.result = "nil"
    /\ last.calls = <<>>
    /\ fullPathOf(last.pvName) \notin dirs
    /\ projects # {}

C8_MissingAnnotationFailsLoud ==
    [][\A c \in DeleteCalls :
          (/\ Delete(c[1], c[2], c[3])
           /\ oldPathOf(c[1]) \in dirs
           /\ ~Annotated(c[1])
           /\ c[3] = "none"
           /\ Lookup(c[2], "archiveOnDelete") \in {<<>>, <<"true">>, <<"false">>})
          => (/\ last'.result = "DeleteQuotaFailed"
              /\ last'.cause = "MissingAnnotation"
              /\ dirs' = dirs /\ projects' = projects /\ limits' = limits)]_vars

\* C9: when the backend Clear (UnsetQuota) fails in deleteQuota, the registry
\* Release (RemoveProject) is still attempted before the error is returned.
C9_ClearFailureStillReleases ==
    (last.op = "Delete" /\ last.result = "DeleteQuotaFailed" /\ last.cause = "BackendFailure")
        => Called("RemoveProject")

\* C10: when the registry no longer has the entry of the annotations, so
\* that RemoveProject reports NotFound, and nothing else fails, a Delete
\* under an archiving policy still succeeds and archives the directory.
C10_NotFoundIsSuccess ==
    [][\A c \in DeleteCalls :
          (/\ Delete(c[1], c[2], c[3])
           /\ oldPathOf(c[1]) \in dirs
           /\ Annotated(c[1])
           /\ Lookup(c[2], "archiveOnDelete") \in ArchivePolicies
           /\ c[3] = "none"
           /\ archivePathOf(c[1]) \notin dirs
           /\ RemoveProject(getBlockAndID(c[1]).block, getBlockAndID(c[1]).id, projects).err = "NotFound")
          => (/\ last'.result = "nil"
              /\ oldPathOf(c[1]) \notin dirs'
              /\ archivePathOf(c[1]) \in dirs')]_vars

----------------------------------------------------------------------------
(* Delete: retries, and the registry against the directories *)

\* the results of a Delete that failed at a step of its dependencies
DependencyFailures ==
    {<<"GetClassFailed", "nil">>, <<"RemoveAllFailed", "nil">>, <<"RenameFailed", "nil">>,
     <<"DeleteQuotaFailed", "BackendFailure">>, <<"DeleteQuotaFailed", "NotFound">>}

\* C11: after a Delete that failed at the class lookup, the quota clear, the
\* registry release, the rename or the removal, a Delete of the same
\* descriptor in which no dependency fails and the policy parses returns
\* success and leaves the directory gone or archived, no registry entry of
\* the descriptor and no limit under its project ID.
C11_RetryAfterFailureSucceeds ==
    [][(/\ last.op = "Delete"
        /\ <<last.result, last.cause>> \in DependencyFailures
        /\ last'.op = "Delete"
        /\ last'.pvName = last.pvName
        /\ fullPathOf(last.pvName) \in dirs
        /\ PathJoin(mountPath, <<"archived-">> \o last.pvName) \notin dirs)
          => \A volume \in pvs, params \in ClassParameters :
                (/\ Cardinality({pv \in pvs : PathBase(pv.Path) = last.pvName}) = 1
                 /\ PathBase(volume.Path) = last.pvName
                 /\ Lookup(params, "archiveOnDelete") # <<"maybe">>
                 /\ Delete(volume, params, "none"))
                => (/\ last'.result = "nil"
                    /\ oldPathOf(volume) \notin dirs'
                    /\ EntriesOf(volume, projects') = {}
                    /\ LimitsOf(volume, limits') = {})]_vars

\* the directory names Provision derives from the requests
VolumeNames == {pvNameOf(options) : options \in VolumeOptions}

\* C12: between calls, the directory of a volume exists exactly when the
\* registry has an entry for the volume's path.
C12_DirectoryIffRegistryEntry ==
    \A name \in VolumeNames :
        fullPathOf(name) \in dirs <=> \E e \in projects : e.path = quotaPathOf(name)

----------------------------------------------------------------------------
(* Provision: validation *)

\* C14: a Provision whose requested access modes are not all among
\* ReadWriteOnce, ReadOnlyMany and ReadWriteMany, or whose claim has a
\* selector, returns an error without calling the quotaer, and leaves the
\* directories, the registry and the enforced limits as they were.
C14_RejectedRequestChangesNothing ==
    [][last'.op = "Provision"
          => \A in \in ProvisionInputs :
                (/\ ~Accepted(in[1])
                 /\ Provision(in[1], in[2]))
                => (/\ last'.result \in {"InvalidAccessModes", "SelectorNotSupported"}
                    /\ last'.calls = <<>>
                    /\ last'.pv = {}
                    /\ dirs' = dirs /\ projects' = projects /\ limits' = limits
                    /\ pvs' = pvs)]_vars

C14_Witness ==
    /\ last.op = "Provision"
    /\ last.result = "InvalidAccessModes"
    /\ projects # {} /\ limits # {}

----------------------------------------------------------------------------
(* Delete: the archiveOnDelete parameter and the annotations *)

\* C15: a Delete of a volume whose directory exists and whose class is found,
\* with an archiveOnDelete parameter that does not parse as a boolean, returns
\* the parse error, calls no quotaer operation and leaves the directories, the
\* registry and the enforced limits as they were.
C15_UnparsablePolicyChangesNothing ==
    [][(last'.op = "Delete" /\ fullPathOf(last'.pvName) \in dirs)
          => \A volume \in DeleteVolumes, in \in DeleteInputs :
                (/\ Lookup(in[1], "archiveOnDelete") = <<"maybe">>
                 /\ PathBase(volume.Path) = last'.pvName
                 /\ in[2] # "getClassForVolume"
                 /\ Delete(volume, in[1], in[2]))
                => (/\ last'.result = "ParseBoolFailed"
                    /\ last'.calls = <<"getClassForVolume">>
                    /\ dirs' = dirs /\ projects' = projects /\ limits' = limits)]_vars

C15_Witness ==
    /\ last.op = "Delete"
    /\ last.result = "ParseBoolFailed"
    /\ fullPathOf(last.pvName) \in dirs
    /\ projects # {} /\ limits # {}

----------------------------------------------------------------------------
(* The backend's limits against the registry *)

\* C16: in every state between calls, every limit the backend enforces is
\* under a project ID that has an active registry entry.
C16_LimitOnlyUnderActiveEntry ==
    \A l \in limits : \E e \in projects : e.projectID = l.projectID

\* a Delete has cleared the limit and released the entry, in that order
C16_Witness ==
    /\ last.op = "Delete"
    /\ last.calls = <<"getClassForVolume", "UnsetQuota", "RemoveProject">>
    /\ last.result \in {"nil", "RenameFailed"}
    /\ projects = {} /\ limits = {}
    /\ pvs # {}

\* C17: a Delete under an archiving policy of a volume whose directory exists
\* and whose Project_Id annotation is empty, not a decimal number or above
\* 65535 returns an error without calling UnsetQuota or RemoveProject, and
\* changes neither the registry nor the limits.
C17_CorruptProjectIDIsRejected ==
    [][\A c \in DeleteCalls :
          (/\ Annotated(c[1])
           /\ ParseUint16(c[1].Annotations[annProjectID]).err # "nil"
           /\ oldPathOf(c[1]) \in dirs
           /\ Lookup(c[2], "archiveOnDelete") \in ArchivePolicies
           /\ c[3] = "none"
           /\ Delete(c[1], c[2], c[3]))
          => (/\ last'.result # "nil"
              /\ ~\E i \in 1..Len(last'.calls) : last'.calls[i] \in {"UnsetQuota", "RemoveProject"}
              /\ projects' = projects /\ limits' = limits)]_vars

----------------------------------------------------------------------------
(* The annotations: from createQuota's results to getBlockAndID *)

\* the requests Provision accepts that carry no label
PlainRequests == {options \in VolumeOptions : Accepted(options) /\ DOMAIN options.Labels = {}}

\* The end of a successful Provision (from the return of createQuota on) when
\* the registry hands out projectID: the directory is there, the entry and
\* the limit are established, and the descriptor is annotated and returned.
ProvisionEstablished(options, projectID) ==
    LET pvName == pvNameOf(options)
        path == PathJoin(pPath, pvName)
        projectBlock == BlockOf(projectID, path)
        pv == [Path |-> path, Annotations |-> PVAnnotations(projectBlock, projectID)]
    IN  /\ dirs' = dirs \cup {fullPathOf(pvName)}
        /\ projects' = projects \cup {[path |-> path, projectID |-> projectID, block |-> projectBlock]}
        /\ limits' = limits \cup {[projectID |-> projectID, path |-> path,
                                   limit |-> FormatUint(options.Capacity)]}
        /\ pvs' = {pv}
        /\ last' = [op |-> "Provision", pvName |-> pvName, result |-> "nil", cause |-> "nil",
                    calls |-> <<"AddProject", "SetQuota">>, pv |-> {pv}]
        /\ UNCHANGED <<pPath, inflight>>

NextRoundTrip ==
    /\ pvs = {}
    /\ \E options \in PlainRequests, projectID \in 1..MaxProjectID :
           ProvisionEstablished(options, projectID)

\* one successful Provision under every project ID the registry can hand out
SpecRoundTrip == Init /\ [][NextRoundTrip]_vars

\* C18: for every descriptor a successful Provision returned, getBlockAndID
\* returns no error and exactly the block and the project ID of the registry
\* entry that the Provision established, for every project ID from 1 to 65535.
C18_AnnotationsRoundTrip ==
    \A pv \in pvs : \A e \in projects :
        e.path = pv.Path
            => (/\ getBlockAndID(pv).err = "nil"
                /\ getBlockAndID(pv).block = e.block
                /\ getBlockAndID(pv).id = e.projectID)

C18_Witness ==
    \E pv \in pvs : \E e \in projects :
        /\ e.path = pv.Path
        /\ e.projectID = MaxProjectID
        /\ pv.Annotations[annProjectID] = <<"6", "5", "5", "3", "5">>
        /\ getBlockAndID(pv).id = MaxProjectID

----------------------------------------------------------------------------
(* Provision calls that run at the same time.  The controller calls         *)
(* Provision from several goroutines and nfsProvisioner takes no lock, so   *)
(* the calls interleave between their system calls and quotaer calls; the   *)
(* registry serialises AddProject and RemoveProject (spec 4.2).             *)

\* The requests of caller c: its own PV name, without or with the directory
\* label, with access modes and selector that pass validation
CallerRequests(c) ==
    {[PVName |-> <<"pv">> \o FormatUint(c), Namespace |-> <<"ns">>, Name |-> <<"claim">>,
      Labels |-> LabelMap(d, <<>>, <<>>), AccessModes |-> {"ReadWriteOnce"}, Selector |-> FALSE,
      Capacity |-> cap] : d \in DirLabels, cap \in Capacities}

\* a panic of one goroutine ends the process and with it every call
Crashed == \E c \in Callers : inflight[c].result = "panic"

At(c, pc) == ~Crashed /\ inflight[c].pc = pc

Returned(c, result, err) == [inflight[c] EXCEPT !.pc = "done", !.result = result, !.err = err]

\* Provision is called: validation passes and the directory name is derived
ProvisionCall(c, options) ==
    /\ At(c, "idle")
    /\ AccessModesContainedInAll(getAccessModes, options.AccessModes)
    /\ ~options.Selector
    /\ inflight' = [inflight EXCEPT ![c] = [Idle EXCEPT !.pc = "Stat", !.pvName = pvNameOf(options),
                                                       !.capacity = options.Capacity]]
    /\ UNCHANGED <<dirs, projects, limits, pvs, pPath, last>>

\* os.Stat(fullPath): on an existing directory err.Error() is called on nil
ProvisionStat(c) ==
    /\ At(c, "Stat")
    /\ inflight' = [inflight EXCEPT ![c] =
                       IF fullPathOf(inflight[c].pvName) \in dirs
                           THEN Returned(c, "panic", "nil")
                       ELSE [inflight[c] EXCEPT !.pc = "MkdirAll"]]
    /\ UNCHANGED <<dirs, projects, limits, pvs, pPath, last>>

\* os.MkdirAll(fullPath, 0777), which succeeds on a directory that exists
ProvisionMkdirAll(c) ==
    /\ At(c, "MkdirAll")
    /\ dirs' = dirs \cup {fullPathOf(inflight[c].pvName)}
    /\ inflight' = [inflight EXCEPT ![c].pc = "Chown"]
    /\ UNCHANGED <<projects, limits, pvs, pPath, last>>

\* os.Chown(fullPath, 0, 0), which fails on a directory that is gone
ProvisionChown(c) ==
    /\ At(c, "Chown")
    /\ inflight' = [inflight EXCEPT ![c] =
                       IF fullPathOf(inflight[c].pvName) \notin dirs
                           THEN Returned(c, "ChownFailed", "nil")
                       ELSE [inflight[c] EXCEPT !.pc = "AddProject"]]
    /\ UNCHANGED <<dirs, projects, limits, pvs, pPath, last>>

\* createQuota: p.quotaer.AddProject(path, limit)
ProvisionAddProject(c) ==
    LET path == PathJoin(pPath, inflight[c].pvName)
        add == AddProject(path, FormatUint(inflight[c].capacity), projects)
    IN  /\ At(c, "AddProject")
        /\ projects' = add.projects
        /\ inflight' = [inflight EXCEPT ![c] =
                           IF add.err # "nil"
                               THEN [inflight[c] EXCEPT !.pc = "RemoveAll", !.err = add.err]
                           ELSE [inflight[c] EXCEPT !.pc = "SetQuota", !.block = add.block,
                                                    !.projectID = add.projectID]]
        /\ UNCHANGED <<dirs, limits, pvs, pPath, last>>

\* createQuota: p.quotaer.SetQuota(projectID, path, limit), and the return of
\* Provision with the annotated descriptor when it succeeds
ProvisionSetQuota(c, backendOk) ==
    LET path == PathJoin(pPath, inflight[c].pvName)
        set == SetQuota(inflight[c].projectID, path, FormatUint(inflight[c].capacity), limits,
                        backendOk)
        pv == [Path |-> path,
               Annotations |-> PVAnnotations(inflight[c].block, inflight[c].projectID)]
    IN  /\ At(c, "SetQuota")
        /\ limits' = set.limits
        /\ inflight' = [inflight EXCEPT ![c] =
                           IF set.err # "nil"
                               THEN [inflight[c] EXCEPT !.pc = "RemoveProject", !.err = set.err]
                           ELSE [Returned(c, "nil", "nil") EXCEPT !.pv = {pv}]]
        /\ UNCHANGED <<dirs, projects, pvs, pPath, last>>

\* createQuota: p.quotaer.RemoveProject(block, projectID) after SetQuota failed
ProvisionRemoveProject(c) ==
    /\ At(c, "RemoveProject")
    /\ projects' = RemoveProject(inflight[c].block, inflight[c].projectID, projects).projects
    /\ inflight' = [inflight EXCEPT ![c].pc = "RemoveAll"]
    /\ UNCHANGED <<dirs, limits, pvs, pPath, last>>

\* os.RemoveAll(path) after createQuota failed, and the return of the error
ProvisionRemoveAll(c) ==
    /\ At(c, "RemoveAll")
    /\ dirs' = RemoveAll(PathJoin(pPath, inflight[c].pvName), dirs)
    /\ inflight' = [inflight EXCEPT ![c] = Returned(c, "CreateQuotaFailed", inflight[c].err)]
    /\ UNCHANGED <<projects, limits, pvs, pPath, last>>

NextConcurrent ==
    \E c \in Callers :
        \/ \E options \in CallerRequests(c) : ProvisionCall(c, options)
        \/ ProvisionStat(c)
        \/ ProvisionMkdirAll(c)
        \/ ProvisionChown(c)
        \/ ProvisionAddProject(c)
        \/ \E backendOk \in BOOLEAN : ProvisionSetQuota(c, backendOk)
        \/ ProvisionRemoveProject(c)
        \/ ProvisionRemoveAll(c)

SpecConcurrent == Init /\ [][NextConcurrent]_vars

\* the callers whose Provision returned a descriptor
Succeeded == {c \in Callers : inflight[c].pc = "done" /\ inflight[c].result = "nil"}

\* C13: when two Provision calls that run at the same time under different
\* directory names both succeed, they return different project IDs; and in
\* every state, the intermediate ones included, no two registry entries
\* have the same project ID.
C13_ConcurrentProjectIDsDiffer ==
    /\ \A c1, c2 \in Succeeded :
          (c1 # c2 /\ inflight[c1].pvName # inflight[c2].pvName)
              => /\ inflight[c1].projectID # inflight[c2].projectID
                 /\ \A pv1 \in inflight[c1].pv, pv2 \in inflight[c2].pv :
                       pv1.Annotations[annProjectID] # pv2.Annotations[annProjectID]
    /\ \A e1, e2 \in projects : e1.projectID = e2.projectID => e1 = e2

C13_Witness ==
    \E c1, c2 \in Succeeded :
        /\ inflight[c1].pvName # inflight[c2].pvName
        /\ inflight[c1].projectID = 1
        /\ inflight[c2].projectID = 2
        /\ Cardinality(projects) >= 2

\* C19: of the Provision calls that run at the same time under one directory
\* name at most one succeeds; the directory and the registry entry of a call
\* that succeeded stay in place whatever the other calls do; and no two calls
\* under one name are both past the existence check and the creation of the
\* directory.
C19_SameNameCallsExclude ==
    /\ \A c1, c2 \in Succeeded : inflight[c1].pvName = inflight[c2].pvName => c1 = c2
    /\ \A c \in Succeeded :
          /\ fullPathOf(inflight[c].pvName) \in dirs
          /\ \E e \in projects : e.path = quotaPathOf(inflight[c].pvName)
                                 /\ e.projectID = inflight[c].projectID
    /\ \A c1, c2 \in Callers :
          (/\ c1 # c2
           /\ inflight[c1].pvName = inflight[c2].pvName
           /\ inflight[c1].pc \notin {"idle", "Stat", "MkdirAll"}
           /\ inflight[c2].pc \notin {"idle", "Stat", "MkdirAll"})
              => \/ inflight[c1].result = "panic"
                 \/ inflight[c2].result = "panic"

====
